---------------------------- MODULE Spec2Model ----------------------------
(***************************************************************************)
(* GithubCheck: a Launcher (src/run-mcp.js) that spawns an MCP Server      *)
(* (src/unnamed/part_000) and writes one JSON-RPC request to its stdin,    *)
(* and the Server's four tool handlers with their three REST primitives.   *)
(*                                                                         *)
(* Four specifications share the variables:                                *)
(*   SpecLauncher  the Launcher with an arbitrary child process            *)
(*   SpecPipeline  the Launcher with the Server of part_000 as its child   *)
(*   SpecServer    concurrent tool invocations on the Server               *)
(*   SpecTool      one tool invocation over a wide range of inputs         *)
(***************************************************************************)
EXTENDS Integers, Sequences, FiniteSets, TLC

VARIABLES
    env,          \* process.env of the Launcher: the four named values
    lpc,          \* Launcher position in run-mcp.js
    exitCode,     \* Launcher exit status ("running" until it exits)
    child,        \* the spawned child: "none", "booting", "serving", "exited"
    childCode,    \* exit code of the child ("none" while it runs)
    childStdin,   \* lines written to the child's stdin, in order
    childStdout,  \* chunks the child wrote to stdout, not yet relayed
    exitSeen,     \* whether the Launcher's "exit" listener has run
    console,      \* what the Launcher logged
    calls,        \* Invocation Requests the transport delivers, per slot
    forge,        \* the pull-request record the forge holds
    clock,        \* system clock of the Server host, in milliseconds
    inv,          \* per slot: the handler's position, requests, responses, result
    comments      \* comments the forge has created, in order of creation

launcherVars == <<env, lpc, exitCode, child, childCode, childStdin, childStdout,
                  exitSeen, console>>
serverVars == <<calls, forge, clock, inv, comments>>
vars == <<env, lpc, exitCode, child, childCode, childStdin, childStdout,
          exitSeen, console, calls, forge, clock, inv, comments>>

-----------------------------------------------------------------------------
(* Bounds *)

MaxLen == 3        \* longest PR_NUMBER text
MaxChunks == 2     \* chunks an arbitrary child writes to stdout
MaxInv == 2        \* concurrent invocation slots in SpecServer

-----------------------------------------------------------------------------
(* JavaScript values used by the Launcher.  Environment texts are sequences *)
(* of one-character strings; an unset variable is EnvUnset.                 *)

EnvUnset == [set |-> FALSE, v |-> <<>>]
EnvVal(s) == [set |-> TRUE, v |-> s]

Digits == {"0", "1", "7"}
DigitVal(c) == CASE c = "0" -> 0 [] c = "1" -> 1 [] c = "7" -> 7 [] OTHER -> 0
Alphabet == Digits \cup {" ", "-", "x"}
InfinityText == <<"I", "n", "f", "i", "n", "i", "t", "y">>

RECURSIVE SeqsUpTo(_, _)
SeqsUpTo(S, n) ==
    IF n = 0 THEN {<<>>}
    ELSE LET shorter == SeqsUpTo(S, n - 1)
         IN  shorter \cup {Append(s, c) : s \in {t \in shorter : Len(t) = n - 1}, c \in S}

NumberTexts == SeqsUpTo(Alphabet, MaxLen) \cup {InfinityText, <<"-">> \o InfinityText}
NameTexts == {<<>>, <<"o">>, <<"r">>}

NaN == [k |-> "nan", v |-> 0]
Infinity(neg) == [k |-> "inf", v |-> IF neg THEN -1 ELSE 1]
Num(n) == [k |-> "num", v |-> n]

RECURSIVE TrimStart(_)
TrimStart(s) == IF s # <<>> /\ Head(s) = " " THEN TrimStart(Tail(s)) ELSE s

RECURSIVE TrimEnd(_)
TrimEnd(s) ==
    IF s # <<>> /\ s[Len(s)] = " " THEN TrimEnd(SubSeq(s, 1, Len(s) - 1)) ELSE s

RECURSIVE DigitsValue(_)
DigitsValue(s) ==
    IF s = <<>> THEN 0
    ELSE DigitsValue(SubSeq(s, 1, Len(s) - 1)) * 10 + DigitVal(s[Len(s)])

IsDigits(s) == s # <<>> /\ \A i \in 1..Len(s) : s[i] \in Digits

\* the hexadecimal digits among the characters of Alphabet
HexDigits == Digits

RECURSIVE HexValue(_)
HexValue(s) ==
    IF s = <<>> THEN 0
    ELSE HexValue(SubSeq(s, 1, Len(s) - 1)) * 16 + DigitVal(s[Len(s)])

\* HexIntegerLiteral: "0x" followed by at least one hexadecimal digit, unsigned
IsHexLiteral(s) ==
    /\ Len(s) >= 3
    /\ s[1] = "0"
    /\ s[2] = "x"
    /\ \A i \in 3..Len(s) : s[i] \in HexDigits

\* StrUnsignedDecimalLiteral: "Infinity" or decimal digits, anything else NaN
ParseUnsigned(s) ==
    IF s = InfinityText THEN Infinity(FALSE)
    ELSE IF IsDigits(s) THEN Num(DigitsValue(s))
    ELSE NaN

Negate(n) ==
    CASE n.k = "nan" -> NaN
      [] n.k = "inf" -> Infinity(TRUE)
      [] OTHER -> Num(0 - n.v)

\* Number(process.env.X): undefined -> NaN, blank -> 0, else the trimmed
\* StringNumericLiteral: a hexadecimal literal, or a decimal one with its sign
ToNumber(e) ==
    IF ~e.set THEN NaN
    ELSE LET t == TrimEnd(TrimStart(e.v))
         IN  IF t = <<>> THEN Num(0)
             ELSE IF IsHexLiteral(t) THEN Num(HexValue(SubSeq(t, 3, Len(t))))
             ELSE IF Head(t) = "-" THEN Negate(ParseUnsigned(Tail(t)))
             ELSE ParseUnsigned(t)

\* JavaScript truthiness of a string-or-undefined and of a number
TruthyText(e) == e.set /\ e.v # <<>>
TruthyNumber(n) == n.k = "inf" \/ (n.k = "num" /\ n.v # 0)

\* JSON.stringify of a number: a non-finite number is written as null
JSONNumber(n) == IF n.k = "num" THEN n ELSE [k |-> "null", v |-> 0]

\* JSON.stringify of a string-or-undefined member: undefined members are dropped
JSONText(e) == IF e.set THEN [k |-> "str", v |-> e.v] ELSE [k |-> "absent", v |-> <<>>]

-----------------------------------------------------------------------------
(* The Launcher, src/run-mcp.js *)

prOwner == env.PR_OWNER
prRepo == env.PR_REPO
prNumber == ToNumber(env.PR_NUMBER)
token == env.GITHUB_TOKEN

\* the check with `!prNumber` left out
ConfigOk_NoNumberCheck == TruthyText(prOwner) /\ TruthyText(prRepo) /\ TruthyText(token)

\* line 9: if (!prOwner || !prRepo || !prNumber || !token) exit(1)
ConfigOk == TruthyText(prOwner) /\ TruthyText(prRepo) /\ TruthyNumber(prNumber)
                /\ TruthyText(token)

\* the request object of lines 22-35 as JSON.stringify writes it, plus "\n"
RequestLine ==
    [ jsonrpc |-> "2.0",
      id |-> 1,
      method |-> "tools.call",
      name |-> "analyze_and_comment_pr",
      owner |-> JSONText(prOwner),
      repo |-> JSONText(prRepo),
      pull_number |-> JSONNumber(prNumber),
      token |-> JSONText(token),
      newline |-> TRUE ]

Log(tag, data) == [tag |-> tag, data |-> data]

\* lines 4-14: read the environment, exit(1) or log the banner
LauncherCheck ==
    /\ lpc = "start"
    /\ IF ConfigOk
       THEN /\ lpc' = "checked"
            /\ console' = Append(console, Log("Running MCP", ""))
            /\ exitCode' = exitCode
       ELSE /\ lpc' = "exited"
            /\ console' = Append(console, Log("Missing environment variables", ""))
            /\ exitCode' = "1"
    /\ UNCHANGED <<env, child, childCode, childStdin, childStdout, exitSeen>>
    /\ UNCHANGED serverVars

\* lines 17-19: spawn("node", ["./dist/github-mcp.js"])
LauncherSpawn ==
    /\ lpc = "checked"
    /\ lpc' = "spawned"
    /\ child' = "booting"
    /\ UNCHANGED <<env, exitCode, childCode, childStdin, childStdout, exitSeen, console>>
    /\ UNCHANGED serverVars

\* lines 22-37: build the request and write it to child.stdin
LauncherWrite ==
    /\ lpc = "spawned"
    /\ lpc' = "written"
    /\ childStdin' = Append(childStdin, RequestLine)
    /\ UNCHANGED <<env, exitCode, child, childCode, childStdout, exitSeen, console>>
    /\ UNCHANGED serverVars

\* lines 39-45: attach the "data" and "exit" listeners; the script's top level ends
LauncherListen ==
    /\ lpc = "written"
    /\ lpc' = "listening"
    /\ UNCHANGED <<env, exitCode, child, childCode, childStdin, childStdout, exitSeen, console>>
    /\ UNCHANGED serverVars

\* lines 39-41: relay one chunk of the child's stdout
OnStdoutData ==
    /\ lpc = "listening"
    /\ childStdout # <<>>
    /\ console' = Append(console, Log("MCP Response:", Head(childStdout)))
    /\ childStdout' = Tail(childStdout)
    /\ UNCHANGED <<env, lpc, exitCode, child, childCode, childStdin, exitSeen>>
    /\ UNCHANGED serverVars

\* lines 43-45: log the child's exit code
OnChildExit ==
    /\ lpc = "listening"
    /\ child = "exited"
    /\ ~exitSeen
    /\ exitSeen' = TRUE
    /\ console' = Append(console, Log("MCP server exited:", childCode))
    /\ UNCHANGED <<env, lpc, exitCode, child, childCode, childStdin, childStdout>>
    /\ UNCHANGED serverVars

\* nothing keeps the Launcher's event loop alive once the child and its pipes are gone
LauncherEnd ==
    /\ lpc = "listening"
    /\ exitSeen
    /\ childStdout = <<>>
    /\ lpc' = "exited"
    /\ exitCode' = "0"
    /\ UNCHANGED <<env, child, childCode, childStdin, childStdout, exitSeen, console>>
    /\ UNCHANGED serverVars

-----------------------------------------------------------------------------
(* An arbitrary child process: it may write any chunks and exit with any code *)

Chunks == {"text", "json"}
ExitCodes == {"0", "1"}

Relayed == {k \in 1..Len(console) : console[k].tag = "MCP Response:"}

ChildWrite ==
    /\ child \in {"booting", "serving"}
    /\ Cardinality(Relayed) + Len(childStdout) < MaxChunks
    /\ \E c \in Chunks : childStdout' = Append(childStdout, c)
    /\ UNCHANGED <<env, lpc, exitCode, child, childCode, childStdin, exitSeen, console>>
    /\ UNCHANGED serverVars

ChildExit ==
    /\ child \in {"booting", "serving"}
    /\ child' = "exited"
    /\ \E c \in ExitCodes : childCode' = c
    /\ UNCHANGED <<env, lpc, exitCode, childStdin, childStdout, exitSeen, console>>
    /\ UNCHANGED serverVars

-----------------------------------------------------------------------------
(* The Server of part_000 as the child: main() and the process around it *)

\* lines 132-411: build the server, register prompt and tools, connect the
\* StreamableHTTPServerTransport.  No StdioServerTransport is ever constructed,
\* so no step of the Server reads childStdin or writes childStdout.
ServerMain ==
    /\ child = "booting"
    /\ child' = "serving"
    /\ UNCHANGED <<env, lpc, exitCode, childCode, childStdin, childStdout, exitSeen, console>>
    /\ UNCHANGED serverVars

\* lines 414-417: main() rejected, process.exit(1)
ServerFatal ==
    /\ child = "booting"
    /\ child' = "exited"
    /\ childCode' = "1"
    /\ UNCHANGED <<env, lpc, exitCode, childStdin, childStdout, exitSeen, console>>
    /\ UNCHANGED serverVars

\* after main() resolves the HTTP transport holds no listener, the process drains
ServerDrain ==
    /\ child = "serving"
    /\ child' = "exited"
    /\ childCode' = "0"
    /\ UNCHANGED <<env, lpc, exitCode, childStdin, childStdout, exitSeen, console>>
    /\ UNCHANGED serverVars

-----------------------------------------------------------------------------
(* Specifications of the Launcher *)

EnvNames == {EnvUnset} \cup {EnvVal(s) : s \in NameTexts}
EnvNumbers == {EnvUnset} \cup {EnvVal(s) : s \in NumberTexts}

NoCalls == <<>>
NoForge == [present |-> FALSE]

InitLauncher ==
    /\ env \in [PR_OWNER : EnvNames, PR_REPO : EnvNames, PR_NUMBER : EnvNumbers,
                 GITHUB_TOKEN : EnvNames]
    /\ lpc = "start"
    /\ exitCode = "running"
    /\ child = "none"
    /\ childCode = "none"
    /\ childStdin = <<>>
    /\ childStdout = <<>>
    /\ exitSeen = FALSE
    /\ console = <<>>
    /\ calls = NoCalls
    /\ forge = NoForge
    /\ clock = 0
    /\ inv = <<>>
    /\ comments = <<>>

NextLauncher ==
    \/ LauncherCheck
    \/ LauncherSpawn
    \/ LauncherWrite
    \/ LauncherListen
    \/ OnStdoutData
    \/ OnChildExit
    \/ LauncherEnd
    \/ ChildWrite
    \/ ChildExit

SpecLauncher == InitLauncher /\ [][NextLauncher]_vars

NextPipeline ==
    \/ LauncherCheck
    \/ LauncherSpawn
    \/ LauncherWrite
    \/ LauncherListen
    \/ OnChildExit
    \/ LauncherEnd
    \/ ServerMain
    \/ ServerFatal
    \/ ServerDrain

\* Node's event loop and the operating system run every step that stays enabled
SpecPipeline == InitLauncher /\ [][NextPipeline]_vars /\ WF_vars(NextPipeline)

-----------------------------------------------------------------------------
(* JavaScript and JSON values used by the Server.  Strings are TLA+ strings; *)
(* a missing member is Undef, a JSON null is Null.                           *)

Undef == "<undefined>"
Null == "<null>"

Truthy(s) == s \notin {Undef, Null, ""}

GITHUB_URL == "https://api.github.com"

\* an object member that may be missing or null: { login }
NoObject == [k |-> "undef", login |-> Undef]
NullObject == [k |-> "null", login |-> Undef]
Object(login) == [k |-> "obj", login |-> login]

\* obj?.login
OptLogin(o) == IF o.k = "obj" THEN o.login ELSE Undef

\* created_at as the forge sends it: an ISO-8601 instant, or something else
Iso(day, hour, ms) == [k |-> "iso", day |-> day, hour |-> hour, ms |-> ms]
BadDate == [k |-> "bad", day |-> 0, hour |-> 0, ms |-> 0]
NoDate == [k |-> "undef", day |-> 0, hour |-> 0, ms |-> 0]

MsPerDay == 1000 * 60 * 60 * 24
MsPerHour == 1000 * 60 * 60

\* new Date(x).getTime(): milliseconds of an ISO instant, NaN for anything else
DateGetTime(d) ==
    IF d.k = "iso" THEN Num((d.day * 24 + d.hour) * MsPerHour + d.ms) ELSE NaN

\* Math.round in place of Math.floor
DaysOld_Rounded(now, created) ==
    IF created.k = "nan" THEN NaN
    ELSE Num((2 * (now - created.v) + MsPerDay) \div (2 * MsPerDay))

\* Math.floor((now - created) / (1000 * 60 * 60 * 24))
DaysOld(now, created) ==
    IF created.k = "nan" THEN NaN ELSE Num((now - created.v) \div MsPerDay)

\* `??` in place of `||`: only null and undefined fall through
AuthorLogin_Nullish(pr) ==
    IF OptLogin(pr.user) \notin {Undef, Null} THEN OptLogin(pr.user)
    ELSE IF OptLogin(pr.author) \notin {Undef, Null} THEN OptLogin(pr.author)
    ELSE "Unknown"

\* pr.user?.login || pr.author?.login || "Unknown"
AuthorLogin(pr) ==
    IF Truthy(OptLogin(pr.user)) THEN OptLogin(pr.user)
    ELSE IF Truthy(OptLogin(pr.author)) THEN OptLogin(pr.author)
    ELSE "Unknown"

\* String.prototype.toUpperCase on the states the forge uses
ToUpperCase(s) ==
    CASE s = "open" -> "OPEN"
      [] s = "closed" -> "CLOSED"
      [] OTHER -> s

\* `${x}` in a template literal
Interpolate(x) == IF x = Undef THEN "undefined" ELSE IF x = Null THEN "null" ELSE x

-----------------------------------------------------------------------------
(* The three REST primitives, part_000 lines 36-130 *)

NoAuth == [set |-> FALSE, scheme |-> "", cred |-> ""]
TokenAuth(t) == [set |-> TRUE, scheme |-> "token", cred |-> t]

\* the header set without the `if (token)` guard
Authorization_Unguarded(t) == TokenAuth(Interpolate(t))

\* lines 43-50, 77-84, 107-115: if (token) headers["Authorization"] = `token ${token}`
Authorization(t) == IF Truthy(t) THEN TokenAuth(t) ELSE NoAuth

NoBody == [k |-> "none", body |-> Undef]
JSONBody(b) == [k |-> "json", body |-> b]

Url(path, owner, repo, number) ==
    [base |-> GITHUB_URL, path |-> path, owner |-> owner, repo |-> repo, number |-> number]

\* lines 41-53: GET {base}/repos/{owner}/{repo}/pulls
GetPullRequestsRequest(owner, repo, t) ==
    [ method |-> "GET",
      url |-> Url("/repos/{owner}/{repo}/pulls", owner, repo, 0),
      accept |-> "application/vnd.github.v3+json",
      userAgent |-> "GitHub-API-Client",
      contentType |-> Undef,
      authorization |-> Authorization(t),
      body |-> NoBody ]

\* the single-record GET aimed at the list endpoint
GetPullRequestRequest_List(owner, repo, pullNumber, t) ==
    [ method |-> "GET",
      url |-> Url("/repos/{owner}/{repo}/pulls", owner, repo, 0),
      accept |-> "application/vnd.github.v3+json",
      userAgent |-> "GitHub-API-Client",
      contentType |-> Undef,
      authorization |-> Authorization(t),
      body |-> NoBody ]

\* lines 75-86: GET {base}/repos/{owner}/{repo}/pulls/{pullNumber}
GetPullRequestRequest(owner, repo, pullNumber, t) ==
    [ method |-> "GET",
      url |-> Url("/repos/{owner}/{repo}/pulls/{number}", owner, repo, pullNumber),
      accept |-> "application/vnd.github.v3+json",
      userAgent |-> "GitHub-API-Client",
      contentType |-> Undef,
      authorization |-> Authorization(t),
      body |-> NoBody ]

\* lines 105-121: POST {base}/repos/{owner}/{repo}/issues/{pullNumber}/comments
PostCommentRequest(owner, repo, pullNumber, body, t) ==
    [ method |-> "POST",
      url |-> Url("/repos/{owner}/{repo}/issues/{number}/comments", owner, repo, pullNumber),
      accept |-> "application/vnd.github.v3+json",
      userAgent |-> "GitHub-API-Client",
      contentType |-> "application/json",
      authorization |-> Authorization(t),
      body |-> JSONBody(body) ]

\* what a fetch can come to: a rejection, or a response with a status and a body
Reject == [k |-> "reject", status |-> 0, body |-> [k |-> "none"]]
Response(status, body) == [k |-> "response", status |-> status, body |-> body]
Unparsable == [k |-> "unparsable"]
JSONNull == [k |-> "null"]
\* the forge's error document, { "message": ... }: an object with no other member
Message == [k |-> "message"]

\* response.ok
IsOk(status) == status >= 200 /\ status <= 299

Error(message, status) == [message |-> message, status |-> status]
Throw(e) == [k |-> "throw", error |-> e, value |-> JSONNull]
Value(v) == [k |-> "value", error |-> Error("", 0), value |-> v]

\* the primitives without the `if (!response.ok) throw`
AwaitJSON_NoOkCheck(out, message) ==
    IF out.k = "reject" THEN Throw(Error("fetch failed", 0))
    ELSE IF out.body.k = "unparsable" THEN Throw(Error("SyntaxError", 0))
    ELSE Value(out.body)

\* lines 53-62, 86-94, 117-129: await fetch; throw unless ok; await response.json()
AwaitJSON(out, message) ==
    IF out.k = "reject" THEN Throw(Error("fetch failed", 0))
    ELSE IF ~IsOk(out.status) THEN Throw(Error(message, out.status))
    ELSE IF out.body.k = "unparsable" THEN Throw(Error("SyntaxError", 0))
    ELSE Value(out.body)

GetPullRequests(out) == AwaitJSON(out, "GitHub API error")
GetPullRequest(out) == AwaitJSON(out, "GitHub API error")
PostCommentOnPR(out) == AwaitJSON(out, "Failed to post comment")

-----------------------------------------------------------------------------
(* Invocation Results and the tool handlers, part_000 lines 173-407 *)

\* the catch block of every handler: { content: [{type:"text", text}], isError: true }
ErrorResult(e) == [isError |-> TRUE, text |-> [k |-> "error", error |-> e]]
\* the return of every try block: { content: [{type:"text", text: JSON.stringify(v)}] }
TextResult(v) == [isError |-> FALSE, text |-> v]

Returned(r) == [k |-> "returned", result |-> r]
Thrown(e) == [k |-> "thrown", result |-> ErrorResult(e)]

\* a handler body outside any try/catch
TryCatch_Rethrows(h) == IF h.k = "throw" THEN Thrown(h.error) ELSE Returned(h.value)

\* try { ... } catch (error) { return { ..., isError: true } }
TryCatch(h) == IF h.k = "throw" THEN Returned(ErrorResult(h.error)) ELSE Returned(h.value)

\* lines 265-309: the report, or a TypeError when pr or pr.state cannot be read.
\* The two dates are carried as the time value that toLocaleString renders.
AnalysisReport(pr, now) ==
    [ k |-> "report",
      number |-> pr.number,
      title |-> Interpolate(pr.title),
      state |-> Interpolate(pr.state),
      author |-> AuthorLogin(pr),
      created |-> DateGetTime(pr.created_at),
      updated |-> DateGetTime(pr.updated_at),
      url |-> Interpolate(pr.html_url),
      status |-> ToUpperCase(pr.state),
      daysOld |-> DaysOld(now, DateGetTime(pr.created_at)) ]

Analyze(got, now) ==
    IF got.k = "throw" THEN got
    ELSE IF got.value.k # "pr" THEN Throw(Error("TypeError", 0))
    ELSE IF got.value.pr.state \in {Undef, Null} THEN Throw(Error("TypeError", 0))
    ELSE Value(AnalysisReport(got.value.pr, now))

\* the members of a parsed comment; an object without them reads as undefined
Missing == [k |-> "undef", v |-> 0]
NoMembers == [id |-> Missing, created_at |-> Missing, user |-> NoObject]
CommentOf(body) == IF body.k = "comment" THEN body.comment ELSE NoMembers

\* lines 319-338: the success payload of analyze_and_comment_pr
AnalyzeSuccess(pr, posted) ==
    IF posted.k = "throw" THEN posted
    ELSE IF posted.value.k = "null" THEN Throw(Error("TypeError", 0))
    ELSE Value(TextResult(
            [ k |-> "analysis",
              success |-> TRUE,
              pr |-> [number |-> pr.number, title |-> pr.title, state |-> pr.state],
              comment |-> [id |-> CommentOf(posted.value).id,
                           created_at |-> CommentOf(posted.value).created_at],
              message |-> "PR analysis successfully posted with Rules.md compliance check" ]))

\* lines 375-394: the success payload of post_comment_on_pr
PostSuccess(posted) ==
    IF posted.k = "throw" THEN posted
    ELSE IF posted.value.k = "null" THEN Throw(Error("TypeError", 0))
    ELSE IF CommentOf(posted.value).user.k # "obj" THEN Throw(Error("TypeError", 0))
    ELSE Value(TextResult(
            [ k |-> "posted",
              success |-> TRUE,
              comment |-> [id |-> CommentOf(posted.value).id,
                           created_at |-> CommentOf(posted.value).created_at,
                           author |-> CommentOf(posted.value).user.login],
              message |-> "Comment successfully posted on PR" ]))

\* lines 183-190, 223-230: the fetched JSON as text
FetchedAsText(got) == IF got.k = "throw" THEN got ELSE Value(TextResult(got.value))

-----------------------------------------------------------------------------
(* The forge: what the upstream REST API may answer to a request *)

\* the statuses the forge answers a GET and a POST with
GetStatuses == {200, 304, 404, 500}
PostStatuses == {201, 304, 404, 500}

\* the pull request the forge returns for the number in the requested URL
ForgePR(req) ==
    [ id |-> 1000 + req.url.number,
      number |-> req.url.number + forge.offset,
      title |-> "Fix",
      state |-> forge.state,
      user |-> forge.user,
      author |-> forge.author,
      created_at |-> forge.created_at,
      updated_at |-> forge.created_at,
      html_url |-> "https://github.com/pull" ]

\* a failed fetch, an error status with the forge's error document, or a 2xx
\* whose body is not JSON
Failures(statuses) ==
    {Reject} \cup {Response(st, Message) : st \in {x \in statuses : ~IsOk(x)}}
             \cup {Response(st, Unparsable) : st \in {x \in statuses : IsOk(x)}}

Successes(statuses, bodies) ==
    {Response(st, b) : st \in {x \in statuses : IsOk(x)}, b \in bodies}

GetOutcomes(req) ==
    Failures(GetStatuses)
        \cup Successes(GetStatuses, {JSONNull, [k |-> "pr", pr |-> ForgePR(req)]})

ListOutcomes(req) ==
    Failures(GetStatuses)
        \cup Successes(GetStatuses, {JSONNull, [k |-> "list", prs |-> <<ForgePR(req)>>]})

NewComment(u) ==
    [k |-> "comment",
     comment |-> [id |-> Num(Len(comments) + 1), created_at |-> Num(clock), user |-> u]]

PostOutcomes(req) ==
    Failures(PostStatuses)
        \cup Successes(PostStatuses, {JSONNull, NewComment(NoObject),
                                      NewComment(Object("bot"))})

\* the forge creates the comment exactly when it answers the POST with a 2xx
Created(i, req, out) ==
    IF out.k = "response" /\ IsOk(out.status)
    THEN Append(comments, [by |-> i, url |-> req.url, body |-> req.body.body])
    ELSE comments

-----------------------------------------------------------------------------
(* Tool invocations: one handler run per slot *)

Slots == DOMAIN calls

Idle ==
    [pc |-> "idle", reqs |-> <<>>, resps |-> <<>>, now |-> <<>>, returned |-> <<>>,
     threw |-> FALSE]

\* the handler issues a fetch and suspends on it
Fetching(i, pc, req) == [inv EXCEPT ![i].pc = pc, ![i].reqs = Append(@, req)]

\* results cached by arguments and shared between invocations
Settled_Cached(i, out, h) ==
    LET e == TryCatch(h)
        prior == {j \in Slots \ {i} : inv[j].pc = "done" /\ calls[j] = calls[i]}
    IN  [inv EXCEPT ![i].pc = "done",
                    ![i].resps = Append(@, out),
                    ![i].returned = IF prior # {}
                                    THEN inv[CHOOSE j \in prior : TRUE].returned
                                    ELSE IF e.k = "returned" THEN Append(@, e.result) ELSE @,
                    ![i].threw = (e.k = "thrown")]

\* the handler ends: its outcome crosses the try/catch boundary
Settled(i, out, h) ==
    LET e == TryCatch(h)
    IN  [inv EXCEPT ![i].pc = "done",
                    ![i].resps = Append(@, out),
                    ![i].returned = IF e.k = "returned" THEN Append(@, e.result) ELSE @,
                    ![i].threw = (e.k = "thrown")]

LastReq(i) == inv[i].reqs[Len(inv[i].reqs)]

\* lines 180-182: get_prs_of_repo is called and awaits getPullRequests
GetPrsOfRepo(i) ==
    /\ calls[i].tool = "get_prs_of_repo"
    /\ inv[i].pc = "idle"
    /\ inv' = Fetching(i, "get",
                 GetPullRequestsRequest(calls[i].owner, calls[i].repo, calls[i].token))
    /\ UNCHANGED <<calls, forge, clock, comments>>
    /\ UNCHANGED launcherVars

\* lines 183-201: the list arrives, or the failure is caught
GetPrsOfRepoResume(i) ==
    /\ calls[i].tool = "get_prs_of_repo"
    /\ inv[i].pc = "get"
    /\ \E out \in ListOutcomes(LastReq(i)) :
          inv' = Settled(i, out, FetchedAsText(GetPullRequests(out)))
    /\ UNCHANGED <<calls, forge, clock, comments>>
    /\ UNCHANGED launcherVars

\* lines 215-222: get_pr is called and awaits getPullRequest
GetPr(i) ==
    /\ calls[i].tool = "get_pr"
    /\ inv[i].pc = "idle"
    /\ inv' = Fetching(i, "get",
                 GetPullRequestRequest(calls[i].owner, calls[i].repo,
                                       calls[i].pull_number, calls[i].token))
    /\ UNCHANGED <<calls, forge, clock, comments>>
    /\ UNCHANGED launcherVars

\* lines 223-241: the record arrives, or the failure is caught
GetPrResume(i) ==
    /\ calls[i].tool = "get_pr"
    /\ inv[i].pc = "get"
    /\ \E out \in GetOutcomes(LastReq(i)) :
          inv' = Settled(i, out, FetchedAsText(GetPullRequest(out)))
    /\ UNCHANGED <<calls, forge, clock, comments>>
    /\ UNCHANGED launcherVars

\* lines 256-263: analyze_and_comment_pr is called and awaits getPullRequest
AnalyzeAndCommentPr(i) ==
    /\ calls[i].tool = "analyze_and_comment_pr"
    /\ inv[i].pc = "idle"
    /\ inv' = Fetching(i, "get",
                 GetPullRequestRequest(calls[i].owner, calls[i].repo,
                                       calls[i].pull_number, calls[i].token))
    /\ UNCHANGED <<calls, forge, clock, comments>>
    /\ UNCHANGED launcherVars

\* lines 265-317: the record arrives, the report is rendered and posted; or the
\* failure is caught (lines 339-348)
AnalyzeAfterGet(i) ==
    /\ calls[i].tool = "analyze_and_comment_pr"
    /\ inv[i].pc = "get"
    /\ \E out \in GetOutcomes(LastReq(i)) :
          LET got == GetPullRequest(out)
              report == Analyze(got, clock)
              read == IF got.k = "value" THEN <<clock>> ELSE <<>>
          IN  IF report.k = "value"
              THEN inv' = [Fetching(i, "post",
                              PostCommentRequest(calls[i].owner, calls[i].repo,
                                                 calls[i].pull_number, report.value,
                                                 calls[i].token))
                             EXCEPT ![i].resps = Append(@, out), ![i].now = read]
              ELSE inv' = [Settled(i, out, report) EXCEPT ![i].now = read]
    /\ UNCHANGED <<calls, forge, clock, comments>>
    /\ UNCHANGED launcherVars

\* lines 319-348: the comment arrives and the summary is returned, or the
\* failure is caught
AnalyzeAfterPost(i) ==
    /\ calls[i].tool = "analyze_and_comment_pr"
    /\ inv[i].pc = "post"
    /\ \E out \in PostOutcomes(LastReq(i)) :
          /\ inv' = Settled(i, out,
                       AnalyzeSuccess(inv[i].resps[1].body.pr, PostCommentOnPR(out)))
          /\ comments' = Created(i, LastReq(i), out)
    /\ UNCHANGED <<calls, forge, clock>>
    /\ UNCHANGED launcherVars

\* lines 365-373: post_comment_on_pr is called and awaits postCommentOnPR
PostCommentOnPr(i) ==
    /\ calls[i].tool = "post_comment_on_pr"
    /\ inv[i].pc = "idle"
    /\ inv' = Fetching(i, "post",
                 PostCommentRequest(calls[i].owner, calls[i].repo, calls[i].pull_number,
                                    calls[i].body, calls[i].token))
    /\ UNCHANGED <<calls, forge, clock, comments>>
    /\ UNCHANGED launcherVars

\* lines 375-405: the comment arrives and is summarised, or the failure is caught
PostCommentOnPrResume(i) ==
    /\ calls[i].tool = "post_comment_on_pr"
    /\ inv[i].pc = "post"
    /\ \E out \in PostOutcomes(LastReq(i)) :
          /\ inv' = Settled(i, out, PostSuccess(PostCommentOnPR(out)))
          /\ comments' = Created(i, LastReq(i), out)
    /\ UNCHANGED <<calls, forge, clock>>
    /\ UNCHANGED launcherVars

\* time passes on the Server host
At(day, hour, ms) == (day * 24 + hour) * MsPerHour + ms
ClockPoints == {At(2, 0, 0), At(4, 0, 0) - 1, At(4, 0, 0), At(4, 2, 0)}

Tick ==
    /\ \E t \in ClockPoints : t > clock /\ clock' = t
    /\ UNCHANGED <<calls, forge, inv, comments>>
    /\ UNCHANGED launcherVars

-----------------------------------------------------------------------------
(* Specifications of the Server *)

Tools == {"get_prs_of_repo", "get_pr", "analyze_and_comment_pr", "post_comment_on_pr"}

Call(tool, owner, repo, n, body, t) ==
    [tool |-> tool, owner |-> owner, repo |-> repo, pull_number |-> n,
     body |-> body, token |-> t]

PlainForge ==
    [offset |-> 0, state |-> "open", user |-> Object("alice"), author |-> NoObject,
     created_at |-> Iso(1, 0, 0)]

Logins == {Undef, Null, "", "alice"}
Users == {NoObject, NullObject} \cup {Object(l) : l \in Logins}
Authors == {NoObject, Object(""), Object("bob")}
CreatedDates == {Iso(1, 0, 0), Iso(1, 22, 0), Iso(5, 0, 1), BadDate, NoDate}

Forges ==
    [offset : {0, 1}, state : {"open", "closed", Undef}, user : Users, author : Authors,
     created_at : CreatedDates]

\* the arguments the schemas of lines 175-179, 208-213, 249-254, 357-363 admit
ToolCalls ==
    {Call(tool, owner, "hello", n, Undef, t) :
        tool \in Tools \ {"post_comment_on_pr"}, owner \in {"octo", "acme"},
        n \in {1, 7}, t \in {Undef, "", "t0k"}}
    \cup
    {Call("post_comment_on_pr", owner, "hello", n, body, t) :
        owner \in {"octo", "acme"}, n \in {1, 7}, body \in {"hello", ""},
        t \in {Undef, "", "t0k"}}

ServerCalls ==
    {Call(tool, "octo", "hello", 7, IF tool = "post_comment_on_pr" THEN "hello" ELSE Undef,
          "t0k") : tool \in Tools}

InitIdle ==
    /\ env = [PR_OWNER |-> EnvUnset, PR_REPO |-> EnvUnset, PR_NUMBER |-> EnvUnset,
              GITHUB_TOKEN |-> EnvUnset]
    /\ lpc = "absent"
    /\ exitCode = "running"
    /\ child = "none"
    /\ childCode = "none"
    /\ childStdin = <<>>
    /\ childStdout = <<>>
    /\ exitSeen = FALSE
    /\ console = <<>>
    /\ inv = [i \in Slots |-> Idle]
    /\ comments = <<>>

InitServer ==
    /\ calls \in [1..MaxInv -> ServerCalls]
    /\ forge \in {PlainForge, [PlainForge EXCEPT !.state = Undef]}
    /\ clock = At(4, 0, 0)
    /\ InitIdle

InitTool ==
    /\ calls \in [{1} -> ToolCalls]
    /\ \/ forge = PlainForge
       \/ /\ forge \in Forges
          /\ calls[1] \in ServerCalls
          /\ calls[1].tool \in {"get_pr", "analyze_and_comment_pr"}
    /\ clock \in ClockPoints
    /\ InitIdle

NextServer ==
    \/ \E i \in Slots : GetPrsOfRepo(i)
    \/ \E i \in Slots : GetPrsOfRepoResume(i)
    \/ \E i \in Slots : GetPr(i)
    \/ \E i \in Slots : GetPrResume(i)
    \/ \E i \in Slots : AnalyzeAndCommentPr(i)
    \/ \E i \in Slots : AnalyzeAfterGet(i)
    \/ \E i \in Slots : AnalyzeAfterPost(i)
    \/ \E i \in Slots : PostCommentOnPr(i)
    \/ \E i \in Slots : PostCommentOnPrResume(i)
    \/ Tick

SpecServer == InitServer /\ [][NextServer]_vars
SpecTool == InitTool /\ [][NextServer]_vars

-----------------------------------------------------------------------------
(* Properties of the Launcher *)

Unset(e) == ~e.set \/ e.v = <<>>
ParsedNumber == ToNumber(env.PR_NUMBER)
Refused == exitCode = "1" /\ child = "none" /\ childStdin = <<>>

\* C2 as stated: the Launcher exits 1 without spawning or writing when one of the
\* four values is missing or PR_NUMBER is not a number, and goes on to spawn the
\* Server whenever all four are there and PR_NUMBER parses as a number.
C2_Original ==
    LET bad == Unset(env.PR_OWNER) \/ Unset(env.PR_REPO) \/ Unset(env.PR_NUMBER)
                  \/ Unset(env.GITHUB_TOKEN) \/ ParsedNumber.k = "nan"
    IN  /\ (lpc # "start" /\ bad) => Refused
        /\ (lpc # "start" /\ ~bad) => exitCode # "1"
        /\ (lpc \notin {"start", "checked"} /\ ~bad) => child # "none"

\* C2 amended: the Launcher exits 1 without spawning or writing exactly when
\* PR_OWNER, PR_REPO or GITHUB_TOKEN is unset or empty, or Number(PR_NUMBER) is NaN
\* or zero; in every other case it never exits 1 and spawns the Server.
C2_Amended ==
    LET bad == Unset(env.PR_OWNER) \/ Unset(env.PR_REPO) \/ Unset(env.GITHUB_TOKEN)
                  \/ ParsedNumber.k = "nan"
                  \/ (ParsedNumber.k = "num" /\ ParsedNumber.v = 0)
    IN  /\ (lpc # "start" /\ bad) => Refused
        /\ (lpc # "start" /\ ~bad) => exitCode # "1"
        /\ (lpc \notin {"start", "checked"} /\ ~bad) => child # "none"

\* a run refused because PR_NUMBER is "0": all four values are there, none spawned
C2_Witness ==
    /\ env.PR_NUMBER = EnvVal(<<"0">>)
    /\ ~Unset(env.PR_OWNER) /\ ~Unset(env.PR_REPO) /\ ~Unset(env.GITHUB_TOKEN)
    /\ lpc = "exited"
    /\ Refused

\* C3 as stated: once the request is on the child's stdin, the Server receives it,
\* runs the tool and answers on stdout, and the Launcher relays that answer.
C3_Original ==
    (childStdin # <<>>) ~> (\E k \in 1..Len(console) : console[k].tag = "MCP Response:")

\* the line the claim describes: the arguments are the environment's values
ClaimedLine ==
    [ jsonrpc |-> "2.0",
      id |-> 1,
      method |-> "tools.call",
      name |-> "analyze_and_comment_pr",
      owner |-> [k |-> "str", v |-> env.PR_OWNER.v],
      repo |-> [k |-> "str", v |-> env.PR_REPO.v],
      pull_number |-> ParsedNumber,
      token |-> [k |-> "str", v |-> env.GITHUB_TOKEN.v],
      newline |-> TRUE ]

Passed == lpc \notin {"start"} /\ exitCode # "1"

WrittenOnce ==
    /\ Len(childStdin) <= 1
    /\ childStdin # <<>> => child # "none"
    /\ (Passed /\ lpc \notin {"checked", "spawned"}) => Len(childStdin) = 1

\* C4 as stated: a run that passes the check writes exactly one request, after the
\* spawn, never again, and its arguments equal the environment's values.
C4_Original ==
    /\ WrittenOnce
    /\ \A k \in 1..Len(childStdin) : childStdin[k] = ClaimedLine

\* what remains of C4 when the parsed PR_NUMBER is finite
C4_FiniteCase ==
    /\ WrittenOnce
    /\ \A k \in 1..Len(childStdin) : ParsedNumber.k = "num" => childStdin[k] = ClaimedLine

-----------------------------------------------------------------------------
(* Properties of the tool handlers *)

Failed(out) == out.k = "reject" \/ out.status < 200 \/ out.status > 299
Count(reqs, method) == Cardinality({k \in 1..Len(reqs) : reqs[k].method = method})
IsTool(i, tool) == calls[i].tool = tool

\* C1: each of the four handlers ends with exactly one Invocation Result and throws
\* nothing past its boundary, whatever its fetches come to; a response with a status
\* of 400 or more makes that result an error.
C1_OneResultNeverThrows ==
    \A i \in Slots :
        /\ ~inv[i].threw
        /\ Len(inv[i].returned) <= 1
        /\ inv[i].pc # "done" => inv[i].returned = <<>>
        /\ (inv[i].reqs # <<>> /\ Len(inv[i].resps) = Len(inv[i].reqs))
              => (inv[i].pc = "done" /\ Len(inv[i].returned) = 1)
        /\ \A k \in 1..Len(inv[i].resps) :
              (inv[i].resps[k].k = "response" /\ inv[i].resps[k].status >= 400)
                 => /\ inv[i].pc = "done"
                    /\ Len(inv[i].returned) = 1
                    /\ inv[i].returned[1].isError

\* analyze_and_comment_pr ended in an error after its POST got a 500 while
\* get_prs_of_repo ended in an error after its fetch was rejected
C1_Witness ==
    \E i, j \in Slots :
        /\ IsTool(i, "analyze_and_comment_pr") /\ inv[i].pc = "done"
        /\ Len(inv[i].resps) = 2 /\ inv[i].resps[2].status = 500
        /\ inv[i].returned[1].isError
        /\ IsTool(j, "get_prs_of_repo") /\ inv[j].pc = "done"
        /\ inv[j].resps[1].k = "reject"
        /\ inv[j].returned[1].isError

\* C5: post_comment_on_pr issues exactly one POST, to the comments endpoint of the
\* pull request, with the JSON body {"body": <body>}, also when the POST fails; it
\* carries no Authorization header without a token and `token <token>` with one.
C5_OnePostWithBody ==
    \A i \in Slots :
        (IsTool(i, "post_comment_on_pr") /\ inv[i].pc # "idle") =>
            /\ Len(inv[i].reqs) = 1
            /\ inv[i].reqs[1].method = "POST"
            /\ inv[i].reqs[1].url =
                  [base |-> "https://api.github.com",
                   path |-> "/repos/{owner}/{repo}/issues/{number}/comments",
                   owner |-> calls[i].owner, repo |-> calls[i].repo,
                   number |-> calls[i].pull_number]
            /\ inv[i].reqs[1].body = [k |-> "json", body |-> calls[i].body]
            /\ calls[i].token \in {Undef, ""} => ~inv[i].reqs[1].authorization.set
            /\ calls[i].token \notin {Undef, ""} =>
                  inv[i].reqs[1].authorization =
                      [set |-> TRUE, scheme |-> "token", cred |-> calls[i].token]

\* body "hello", no token, the POST answered 500: still one POST, no Authorization
C5_Witness ==
    \E i \in Slots :
        /\ IsTool(i, "post_comment_on_pr") /\ inv[i].pc = "done"
        /\ calls[i].body = "hello" /\ calls[i].token = Undef
        /\ inv[i].resps[1].status = 500
        /\ Len(inv[i].reqs) = 1
        /\ ~inv[i].reqs[1].authorization.set

Posted(i) == IsTool(i, "analyze_and_comment_pr") /\ Len(inv[i].reqs) = 2
ReportOf(i) == inv[i].reqs[2].body.body
FetchedPR(i) == inv[i].resps[1].body.pr
Present(login) == login \notin {Undef, Null, ""}
LoginOf(o) == IF o.k = "obj" THEN o.login ELSE Undef

\* C6: the author in the report is user.login when present and non-empty, else
\* author.login when present and non-empty, else "Unknown"; never null, undefined
\* or empty.
C6_AuthorResolution ==
    \A i \in Slots :
        Posted(i) =>
            /\ Present(LoginOf(FetchedPR(i).user))
                  => ReportOf(i).author = LoginOf(FetchedPR(i).user)
            /\ (~Present(LoginOf(FetchedPR(i).user)) /\ Present(LoginOf(FetchedPR(i).author)))
                  => ReportOf(i).author = LoginOf(FetchedPR(i).author)
            /\ (~Present(LoginOf(FetchedPR(i).user)) /\ ~Present(LoginOf(FetchedPR(i).author)))
                  => ReportOf(i).author = "Unknown"
            /\ Present(ReportOf(i).author)

\* user.login is an empty string and author.login is "bob": the report names bob
C6_Witness ==
    \E i \in Slots :
        /\ Posted(i)
        /\ FetchedPR(i).user = Object("")
        /\ FetchedPR(i).author = Object("bob")
        /\ ReportOf(i).author = "bob"

Elapsed(i) == inv[i].now[1] - ReportOf(i).created.v

\* C7: daysOld is floor((now - created_at) / 86 400 000): an elapsed time in
\* [k days, k+1 days) gives k, and 3 days 2 hours gives 3.
C7_DaysOldIsFloor ==
    \A i \in Slots :
        (Posted(i) /\ ReportOf(i).created.k = "num") =>
            /\ ReportOf(i).daysOld.k = "num"
            /\ ReportOf(i).daysOld.v * 86400000 <= Elapsed(i)
            /\ Elapsed(i) < (ReportOf(i).daysOld.v + 1) * 86400000
            /\ Elapsed(i) = 3 * 86400000 + 2 * 3600000 => ReportOf(i).daysOld.v = 3

\* created_at exactly 3 days and 2 hours before now: daysOld is 3
C7_Witness ==
    \E i \in Slots :
        /\ Posted(i) /\ ReportOf(i).created.k = "num"
        /\ Elapsed(i) = 3 * 86400000 + 2 * 3600000
        /\ ReportOf(i).daysOld = Num(3)

\* C8: when the forge answers the GET of /repos/{owner}/{repo}/pulls/{number} with
\* a 2xx record that echoes the number, get_pr returns a non-error result whose
\* JSON payload has that number, after exactly one GET and no POST.
C8_GetPrEchoesNumber ==
    \A i \in Slots :
        (/\ IsTool(i, "get_pr") /\ inv[i].pc = "done"
         /\ ~Failed(inv[i].resps[1])
         /\ inv[i].resps[1].body.k = "pr"
         /\ inv[i].resps[1].body.pr.number = inv[i].reqs[1].url.number) =>
            /\ ~inv[i].returned[1].isError
            /\ inv[i].returned[1].text.k = "pr"
            /\ inv[i].returned[1].text.pr.number = calls[i].pull_number
            /\ Count(inv[i].reqs, "GET") = 1
            /\ Count(inv[i].reqs, "POST") = 0
            /\ inv[i].reqs[1].url =
                  [base |-> "https://api.github.com",
                   path |-> "/repos/{owner}/{repo}/pulls/{number}",
                   owner |-> calls[i].owner, repo |-> calls[i].repo,
                   number |-> calls[i].pull_number]

\* get_pr for acme/hello#7 returned the record numbered 7
C8_Witness ==
    \E i \in Slots :
        /\ IsTool(i, "get_pr") /\ inv[i].pc = "done"
        /\ calls[i].owner = "acme" /\ calls[i].pull_number = 7
        /\ ~inv[i].returned[1].isError
        /\ inv[i].returned[1].text.k = "pr"
        /\ inv[i].returned[1].text.pr.number = 7

\* every answer the invocation got was a 2xx with a complete JSON document
Succeeding(i) ==
    \A k \in 1..Len(inv[i].resps) :
        /\ ~Failed(inv[i].resps[k])
        /\ inv[i].resps[k].body.k \in {"pr", "comment"}
        /\ inv[i].resps[k].body.k = "pr" => Present(inv[i].resps[k].body.pr.state)

IssueUrl(i) ==
    [base |-> "https://api.github.com",
     path |-> "/repos/{owner}/{repo}/issues/{number}/comments",
     owner |-> calls[i].owner, repo |-> calls[i].repo, number |-> calls[i].pull_number]

Analyzed(i) == IsTool(i, "analyze_and_comment_pr") /\ inv[i].pc = "done"

\* C9: invocations share nothing: an analyze_and_comment_pr whose own upstream
\* answers succeed ends in success built from its own answers, whatever the other
\* invocations did; two of them on the same pull request both succeed and leave
\* two POSTs and two comments; equal arguments and answers give equal results.
C9_IndependentInvocations ==
    /\ \A i \in Slots :
          Analyzed(i) =>
             /\ inv[i].returned[1].isError <=> ~(Succeeding(i) /\ Len(inv[i].resps) = 2)
             /\ ~inv[i].returned[1].isError =>
                   /\ inv[i].returned[1].text.pr.number = inv[i].resps[1].body.pr.number
                   /\ inv[i].returned[1].text.comment.id = inv[i].resps[2].body.comment.id
    /\ \A i, j \in Slots :
          (i # j /\ Analyzed(i) /\ Analyzed(j) /\ Succeeding(i) /\ Succeeding(j)
               /\ IssueUrl(i) = IssueUrl(j)) =>
             /\ ~inv[i].returned[1].isError /\ ~inv[j].returned[1].isError
             /\ Count(inv[i].reqs, "POST") = 1 /\ Count(inv[j].reqs, "POST") = 1
             /\ Cardinality({k \in 1..Len(comments) :
                               comments[k].url = IssueUrl(i) /\ comments[k].by \in {i, j}}) = 2
    /\ \A i, j \in Slots :
          (inv[i].pc = "done" /\ inv[j].pc = "done" /\ calls[i] = calls[j]
               /\ inv[i].resps = inv[j].resps /\ inv[i].now = inv[j].now)
             => inv[i].returned = inv[j].returned

\* two analyze_and_comment_pr runs on the same pull request, the second started
\* before the first ended, both succeeded: two comments
C9_Witness ==
    \E i, j \in Slots :
        /\ i # j /\ Analyzed(i) /\ Analyzed(j) /\ IssueUrl(i) = IssueUrl(j)
        /\ ~inv[i].returned[1].isError /\ ~inv[j].returned[1].isError
        /\ Len(comments) = 2
        /\ comments[1].by = i /\ comments[2].by = j
        /\ inv[j].now[1] < inv[i].resps[2].body.comment.created_at.v

\* C10: analyze_and_comment_pr issues its POST only after the GET returned a 2xx;
\* a failed GET means no POST and an error result; at most one GET and one POST
\* per invocation; success only if both calls succeeded.
C10_GetBeforePost ==
    \A i \in Slots :
        IsTool(i, "analyze_and_comment_pr") =>
            /\ Count(inv[i].reqs, "GET") <= 1 /\ Count(inv[i].reqs, "POST") <= 1
            /\ Len(inv[i].reqs) = Count(inv[i].reqs, "GET") + Count(inv[i].reqs, "POST")
            /\ Count(inv[i].reqs, "POST") = 1 =>
                  /\ inv[i].reqs[1].method = "GET" /\ inv[i].reqs[2].method = "POST"
                  /\ Len(inv[i].resps) >= 1
                  /\ ~Failed(inv[i].resps[1])
            /\ (Len(inv[i].resps) >= 1 /\ Failed(inv[i].resps[1])) =>
                  /\ Count(inv[i].reqs, "POST") = 0
                  /\ inv[i].pc = "done"
                  /\ inv[i].returned[1].isError
            /\ (inv[i].pc = "done" /\ ~inv[i].returned[1].isError) =>
                  /\ Len(inv[i].resps) = 2
                  /\ ~Failed(inv[i].resps[1]) /\ ~Failed(inv[i].resps[2])
                  /\ inv[i].returned[1].text.success
            /\ (Len(inv[i].resps) = 2 /\ Failed(inv[i].resps[2])) =>
                  inv[i].returned[1].isError

\* the GET succeeded, the POST was answered 404: one GET, one POST, an error result
C10_Witness ==
    \E i \in Slots :
        /\ Analyzed(i)
        /\ Len(inv[i].resps) = 2
        /\ inv[i].resps[1].status = 200 /\ inv[i].resps[2].status = 404
        /\ Count(inv[i].reqs, "GET") = 1 /\ Count(inv[i].reqs, "POST") = 1
        /\ inv[i].returned[1].isError

=============================================================================
